---- MODULE Spec2Model ----
(***************************************************************************)
(* A model of the acquisition-and-fusion pipeline:                         *)
(*   src/scraper.py                  discovery, capability filter,         *)
(*                                   windowed retrieval                    *)
(*   src/Scrapers/SynopticScraper.py nearest-source lookup, fusion merge   *)
(* Three specifications share the definitions:                             *)
(*   SpecFuse     fuse_data / fetch_synoptic_data as pure functions        *)
(*   SpecFusion   main() of SynopticScraper.py, run after run              *)
(*   SpecScraper  main() of scraper.py                                     *)
(***************************************************************************)
EXTENDS Integers, Sequences, FiniteSets, TLC

VARIABLES
    \* ---- SpecFuse: repeated calls of fuse_data
    f_df,        \* the table the last call returned (the canonical table at first)
    f_in,        \* the table the last call was given
    f_S,         \* the supplementary series the last call was given
    f_same,      \* the last call reused the series of the call before it
    f_n,         \* number of calls so far
    \* ---- SpecFusion: SynopticScraper.main
    csv_file,    \* the persisted series CSV (args.csv_path)
    json_file,   \* the persisted metadata document (args.json_path)
    pc,          \* position of main()
    df,          \* local: the loaded table
    metadata,    \* local: the loaded metadata
    station,     \* local: (station_id, station_meta) of find_nearest_station
    response_kind, \* what the time-series endpoint answered to this run
    synoptic,    \* local: (synoptic_data, units, sensor_vars)
    final_df,    \* local: the fused table
    run,         \* number of the current run (the fetch/run identity)
    exit_code,   \* exit status of the last ended run
    csv_at_start, \* the CSV as the current run found it
    \* ---- SpecDiscovery / SpecScraper: scraper.py
    listing,     \* what the listing endpoints answered to the last get_sites
    sites,       \* what get_sites returned
    s_pc,        \* position of main()
    today,       \* the clock: datetime.now() as the day YYYYMMDD
    ticks,       \* days the clock has advanced since main() started
    END_YEAR,    \* main's END_YEAR
    idx,         \* index in sites of the site being processed
    has_all,     \* check_site_monitors' verdict on that site
    mon,         \* what the monitors endpoint answered for that site
    year,        \* the window loop's year
    all_records, \* the samples accumulated for that site
    windows,     \* the windows requested for that site, with their answers
    raw_file,    \* data/{safe_name}_raw.csv of that site (no columns: not written)
    cleaned_file, \* data/{safe_name}_cleaned.csv of that site
    meta_file    \* data/{safe_name}_metadata.json of that site

fuseVars == <<f_df, f_in, f_S, f_same, f_n>>
runVars == <<csv_file, json_file, pc, df, metadata, station, response_kind, synoptic, final_df,
             run, exit_code, csv_at_start>>
scraperVars == <<listing, sites, s_pc, today, ticks, END_YEAR, idx, has_all, mon,
                 year, all_records, windows, raw_file, cleaned_file, meta_file>>
vars == <<fuseVars, runVars, scraperVars>>

\* ------------------------------------------------------------------ bounds
\* canonical wall-clock hours are 1..MaxTime; the supplementary network
\* reports the UTC hours 7..MaxTime+7
MaxTime == 2
\* calls of fuse_data in SpecFuse
MaxFuse == 3
\* fusion runs in SpecFusion
MaxRuns == 2
\* entries of metadata['details'] in SpecFusion
MaxDetails == 2
\* counties of the state, and sites listed per county
MaxCounties == 2
MaxSitesPerCounty == 2
\* the current year is at most START_YEAR + MaxSpan when main() starts
MaxSpan == 2
\* days the clock may advance during a run of main()
MaxTicks == 1
\* samples returned for one window
MaxSamples == 1

\* ------------------------------------------------------------- data frames
\* A pandas DataFrame: its column labels in order and its rows in order, a row
\* being the sequence of its values, aligned with the columns.
\* a missing value (None / NaN); every present value is a number >= 0
NA == 0 - 1
Range(s) == {s[i] : i \in DOMAIN s}
EmptyFrame == [columns |-> <<>>, rows |-> <<>>]
\* DataFrame.empty: any axis of length 0
IsEmpty(d) == Len(d.columns) = 0 \/ Len(d.rows) = 0
HasColumn(d, c) == c \in Range(d.columns)
ColIndex(d, c) == CHOOSE i \in DOMAIN d.columns : d.columns[i] = c
Column(d, c) == [i \in DOMAIN d.rows |-> d.rows[i][ColIndex(d, c)]]
NumColumns(d, c) == Cardinality({i \in DOMAIN d.columns : d.columns[i] = c})

\* df[c] = v with a scalar v: overwrite the column in place, or append it
AssignColumn(d, c, v) ==
    IF HasColumn(d, c)
    THEN [d EXCEPT !.rows = [i \in DOMAIN d.rows |->
                               [d.rows[i] EXCEPT ![ColIndex(d, c)] = v]]]
    ELSE [columns |-> Append(d.columns, c),
          rows |-> [i \in DOMAIN d.rows |-> Append(d.rows[i], v)]]

\* df.rename(columns={old: new})
RenameColumn(d, old, new) ==
    [d EXCEPT !.columns = [i \in DOMAIN d.columns |->
                             IF d.columns[i] = old THEN new ELSE d.columns[i]]]

RECURSIVE KeepIdx(_, _, _)
\* the values of s at the indices in keep, in order, from index i on
KeepIdx(s, keep, i) ==
    IF i > Len(s) THEN <<>>
    ELSE (IF i \in keep THEN <<s[i]>> ELSE <<>>) \o KeepIdx(s, keep, i + 1)

\* df.drop(columns=cols)
DropColumns(d, cols) ==
    LET keep == {i \in DOMAIN d.columns : d.columns[i] \notin cols}
    IN [columns |-> KeepIdx(d.columns, keep, 1),
        rows |-> [i \in DOMAIN d.rows |-> KeepIdx(d.rows[i], keep, 1)]]

RECURSIVE MergeRows(_, _, _, _, _, _)
\* the rows of a left merge from left row i on: each left row once per matching
\* right row (in the right's order), or once with missing values when none matches
MergeRows(l, r, lk, rk, rkeep, i) ==
    IF i > Len(l.rows) THEN <<>>
    ELSE LET lrow == l.rows[i]
             hits == SelectSeq(r.rows, LAMBDA x : x[rk] = lrow[lk])
             out == IF Len(hits) = 0
                    THEN <<lrow \o [j \in 1..Cardinality(rkeep) |-> NA]>>
                    ELSE [j \in DOMAIN hits |-> lrow \o KeepIdx(hits[j], rkeep, 1)]
         IN out \o MergeRows(l, r, lk, rk, rkeep, i + 1)

\* pd.merge(l, r, on=key, how='left'): the left's key order is kept; a column
\* label both sides carry (other than the key) gets the suffixes _x and _y
MergeLeft(l, r, key) ==
    LET both == (Range(l.columns) \cap Range(r.columns)) \ {key}
        rkeep == {i \in DOMAIN r.columns : r.columns[i] # key}
        lcols == [i \in DOMAIN l.columns |->
                    IF l.columns[i] \in both THEN l.columns[i] \o "_x"
                    ELSE l.columns[i]]
        rcols == [i \in DOMAIN r.columns |->
                    IF r.columns[i] \in both THEN r.columns[i] \o "_y"
                    ELSE r.columns[i]]
    IN [columns |-> lcols \o KeepIdx(rcols, rkeep, 1),
        rows |-> MergeRows(l, r, ColIndex(l, key), ColIndex(r, key), rkeep, 1)]

\* ---------------------------------------------------- fetch_synoptic_data
NoTz == "None"
Timezones == {NoTz, "America/Denver", "Not/AZone"}
\* the UTC hours the supplementary network reports
UtcHours == 7..(MaxTime + 7)

\* dates.tz_convert(tz) followed by tz_localize(None): the wall-clock hour of a
\* UTC hour. America/Denver is at UTC-6 until its fall-back at UTC hour 9 and
\* at UTC-7 from then on, so one wall-clock hour occurs twice.
WallClock(u, tz) ==
    IF tz = "America/Denver" THEN (IF u < 9 THEN u - 6 ELSE u - 7)
    ELSE u   \* no timezone, or tz_convert raised and the dates stay UTC

\* what the function returns: a 3-tuple, or a bare DataFrame
Tuple3(a, b, c) == [tuple |-> TRUE, items |-> <<a, b, c>>]
Bare(d) == [tuple |-> FALSE, items |-> d.columns]

\* response: [kind, obs, units, sensor_vars]; obs is the sequence of
\* (date_time, solar_radiation_set_1) pairs of OBSERVATIONS
fetch_synoptic_data(response, station_timezone) ==
    CASE response.kind = "http_error" -> Tuple3(EmptyFrame, "{}", "{}")
      [] response.kind = "no_station" -> Bare(EmptyFrame)
      [] response.kind = "no_fields" -> Bare(EmptyFrame)
      [] OTHER ->
           Tuple3([columns |-> <<"datetime_synoptic", "SR_Synoptic">>,
                   rows |-> [i \in DOMAIN response.obs |->
                               <<WallClock(response.obs[i].t, station_timezone),
                                 response.obs[i].v>>]],
                  response.units, response.sensor_vars)

\* ---------------------------------------------------------------- fuse_data
\* 'SR_Synoptic' in c, over the column labels that occur
ContainsSRSynoptic(c) == c \in {"SR_Synoptic", "SR_Synoptic_x", "SR_Synoptic_y"}

fuse_data(original_df, synoptic_df) ==
    IF IsEmpty(synoptic_df)
    THEN AssignColumn(original_df, "SR_Synoptic", NA)
    ELSE LET syn == RenameColumn(synoptic_df, "datetime_synoptic", "datetime")
             cols_to_drop == {c \in Range(original_df.columns) : ContainsSRSynoptic(c)}
             orig == IF cols_to_drop # {} THEN DropColumns(original_df, cols_to_drop)
                     ELSE original_df
         IN MergeLeft(orig, syn, "datetime")

\* ------------------------------------------------------------ bounded inputs
\* the increasing sequence of the elements of a finite set of numbers
SortedSeq(S) ==
    CHOOSE s \in [1..Cardinality(S) -> S] :
        /\ Range(s) = S
        /\ \A i, j \in DOMAIN s : i < j => s[i] < s[j]

\* a canonical wide table as the reshaper writes it: one row per distinct
\* timestamp, in increasing order, here with the one channel column O3
CanonicalTable(T) ==
    [columns |-> <<"datetime", "O3">>,
     rows |-> [i \in 1..Cardinality(T) |-> <<SortedSeq(T)[i], 40 + SortedSeq(T)[i]>>]]
CanonicalTables == {CanonicalTable(T) : T \in SUBSET (1..MaxTime)}

\* the observation lists of a time-series response: increasing UTC hours,
\* each with a value of vals
ObsSeqs(vals) ==
    {[i \in 1..Cardinality(U) |-> [t |-> SortedSeq(U)[i], v |-> val[SortedSeq(U)[i]]]] :
        <<U, val>> \in {<<U, val>> \in (SUBSET UtcHours) \X [UtcHours -> vals] : TRUE}}
OkResponses(vals) ==
    {[kind |-> "ok", obs |-> o, units |-> "W/m**2", sensor_vars |-> "pyranometer"] :
        o \in ObsSeqs(vals)}
FailedResponse(k) == [kind |-> k, obs |-> <<>>, units |-> "{}", sensor_vars |-> "{}"]

\* ================================================================ SpecFuse
NoSource == [present |-> FALSE, station_id |-> 0, fetch |-> 0]
NoMetadata == [has_details |-> FALSE, details |-> <<>>, synoptic_source |-> NoSource]
NoStation == [station_id |-> 0, TIMEZONE |-> NoTz]
NoSeries == <<EmptyFrame, "{}", "{}">>
NoListing == [raised |-> FALSE, status_code |-> 0, counties |-> <<>>]
NoMonitors == [ok |-> FALSE, codes |-> {}]
NoSiteMetadata == [params |-> <<>>, details |-> <<>>]

InitFuse ==
    /\ f_df \in CanonicalTables
    /\ f_in = f_df
    /\ f_S = EmptyFrame
    /\ f_same = FALSE
    /\ f_n = 0
    /\ csv_file = EmptyFrame /\ json_file = NoMetadata /\ pc = "idle"
    /\ df = EmptyFrame /\ metadata = NoMetadata /\ station = NoStation
    /\ response_kind = "none" /\ synoptic = NoSeries /\ final_df = EmptyFrame /\ run = 0
    /\ exit_code = 0 - 1 /\ csv_at_start = EmptyFrame
    /\ listing = NoListing /\ sites = <<>> /\ s_pc = "idle" /\ today = 0
    /\ ticks = 0 /\ END_YEAR = 0 /\ idx = 0 /\ has_all = FALSE /\ mon = NoMonitors
    /\ year = 0 /\ all_records = <<>> /\ windows = <<>>
    /\ raw_file = EmptyFrame /\ cleaned_file = EmptyFrame /\ meta_file = NoSiteMetadata

\* one call final_df = fuse_data(df, synoptic_data), the series being what
\* fetch_synoptic_data made of a response
Fuse ==
    /\ f_n < MaxFuse
    /\ \E response \in OkResponses({5, 6}) \cup {FailedResponse("http_error")},
          tz \in Timezones :
         LET S == fetch_synoptic_data(response, tz).items[1]
         IN /\ f_in' = f_df
            /\ f_df' = fuse_data(f_df, S)
            /\ f_S' = S
            /\ f_same' = (f_n >= 1 /\ S = f_S)
    /\ f_n' = f_n + 1
    /\ UNCHANGED <<runVars, scraperVars>>

\* ============================================================== SpecFusion
\* ---- the metadata document
\* metadata['details'][param] is the "No Data" marker, a dict without
\* coordinates, a dict whose coordinates are null, or a dict with coordinates
DetailKinds == {"NoData", "NoCoords", "NullCoords", "Coords"}
MetadataDocs ==
    {[has_details |-> h, details |-> d, synoptic_source |-> NoSource] :
        <<h, d>> \in {<<h, d>> \in BOOLEAN \X UNION {[1..n -> DetailKinds] : n \in 0..MaxDetails} :
                        h \/ d = <<>>}}

RECURSIVE FirstLocationNullOk(_, _)
\* FirstLocation without the test for null coordinates
FirstLocationNullOk(details, i) ==
    IF i > Len(details) THEN "None"
    ELSE IF details[i] \in {"Coords", "NullCoords"} THEN "LatLon"
    ELSE FirstLocationNullOk(details, i + 1)

RECURSIVE FirstLocation(_, _)
\* the loop over metadata['details']: the (lat, lon) of the first entry that
\* has both keys ('latitude' in "No Data" is a substring test, and false);
\* "None" when no entry has them or the first that has them holds nulls
FirstLocation(details, i) ==
    IF i > Len(details) THEN "None"
    ELSE IF details[i] = "Coords" THEN "LatLon"
    ELSE IF details[i] = "NullCoords" THEN "None"
    ELSE FirstLocation(details, i + 1)
Location(md) == IF md.has_details THEN FirstLocation(md.details, 1) ELSE "None"

\* ---- find_nearest_station
Stations == {1, 2}
StationResponses ==
    {[kind |-> "error", STID |-> 0, TIMEZONE |-> NoTz],
     [kind |-> "empty", STID |-> 0, TIMEZONE |-> NoTz]}
    \cup {[kind |-> "ok", STID |-> s, TIMEZONE |-> z] : s \in Stations, z \in Timezones}
\* (None, None) when the request raises or lists no STATION
find_nearest_station(response) ==
    IF response.kind = "ok"
    THEN [station_id |-> response.STID, TIMEZONE |-> response.TIMEZONE]
    ELSE NoStation

\* what station s reports at the fetch of run k: the value names both
ObsValue(s, k) == 10 * k + s
ValueStation(v) == v % 10
ValueFetch(v) == v \div 10
SeriesResponses(s, k) ==
    OkResponses({ObsValue(s, k)})
    \cup {FailedResponse(x) : x \in {"http_error", "no_station", "no_fields"}}

Running == {"loaded", "located", "found", "fetched", "fused", "csv_saved"}
Ended == {"exit_no_token", "exit_load", "exit_no_location", "exit_no_station",
          "raised_unpack", "done", "killed"}

InitFusion ==
    /\ csv_file \in CanonicalTables
    /\ json_file \in MetadataDocs
    /\ pc = "idle"
    /\ df = EmptyFrame /\ metadata = json_file
    /\ station = NoStation /\ response_kind = "none" /\ synoptic = NoSeries
    /\ final_df = EmptyFrame /\ run = 0 /\ exit_code = 0 - 1
    /\ csv_at_start = csv_file
    /\ f_df = EmptyFrame /\ f_in = EmptyFrame /\ f_S = EmptyFrame
    /\ f_same = FALSE /\ f_n = 0
    /\ listing = NoListing /\ sites = <<>> /\ s_pc = "idle" /\ today = 0
    /\ ticks = 0 /\ END_YEAR = 0 /\ idx = 0 /\ has_all = FALSE /\ mon = NoMonitors
    /\ year = 0 /\ all_records = <<>> /\ windows = <<>>
    /\ raw_file = EmptyFrame /\ cleaned_file = EmptyFrame /\ meta_file = NoSiteMetadata

\* a run ends: the locals die with the process
EndRun(at, code) ==
    /\ pc' = at
    /\ exit_code' = code

\* main, lines 178-185: the token check and load_data
StartRun ==
    /\ pc \in {"idle"} \cup Ended
    /\ run < MaxRuns
    /\ run' = run + 1
    /\ csv_at_start' = csv_file
    /\ station' = NoStation /\ response_kind' = "none" /\ synoptic' = NoSeries
    /\ final_df' = EmptyFrame
    /\ \E token \in BOOLEAN, readable \in BOOLEAN :
         IF ~token
         THEN EndRun("exit_no_token", 1) /\ df' = EmptyFrame /\ metadata' = json_file
         ELSE IF ~readable
         THEN EndRun("exit_load", 1) /\ df' = EmptyFrame /\ metadata' = json_file
         ELSE /\ df' = csv_file
              /\ metadata' = json_file
              /\ pc' = "loaded"
              /\ UNCHANGED exit_code
    /\ UNCHANGED <<csv_file, json_file, fuseVars, scraperVars>>

\* main, lines 193-207: the location from the metadata, or sys.exit(1)
Locate ==
    /\ pc = "loaded"
    /\ IF Location(metadata) = "None"
       THEN EndRun("exit_no_location", 1)
       ELSE pc' = "located" /\ UNCHANGED exit_code
    /\ UNCHANGED <<csv_file, json_file, df, metadata, station, response_kind, synoptic, final_df,
                   run, csv_at_start, fuseVars, scraperVars>>

\* WithSynopticColumn without the test for an existing column
WithSynopticColumnAlways(d) == AssignColumn(d, "SR_Synoptic", NA)

\* main, lines 217-218: the column is added only when the table has none
WithSynopticColumn(d) ==
    IF ~HasColumn(d, "SR_Synoptic") THEN AssignColumn(d, "SR_Synoptic", NA) ELSE d

\* main, lines 210-222: the nearest station; without one the table is written
\* back with an SR_Synoptic column and the run exits with 0
FindStation ==
    /\ pc = "located"
    /\ \E response \in StationResponses :
         LET found == find_nearest_station(response)
         IN /\ station' = found
            /\ IF found.station_id = 0
               THEN /\ df' = WithSynopticColumn(df)
                    /\ csv_file' = df'
                    /\ EndRun("exit_no_station", 0)
               ELSE /\ pc' = "found"
                    /\ UNCHANGED <<df, csv_file, exit_code>>
    /\ UNCHANGED <<json_file, metadata, response_kind, synoptic, final_df, run, csv_at_start, fuseVars, scraperVars>>

\* main, lines 225-230: the fetch, and the unpacking of what it returns into
\* three names (a bare DataFrame unpacks into its column labels: ValueError
\* unless there are three)
FetchSeries ==
    /\ pc = "found"
    /\ \E response \in SeriesResponses(station.station_id, run) :
         LET ret == fetch_synoptic_data(response, station.TIMEZONE)
         IN /\ response_kind' = response.kind
            /\ IF Len(ret.items) = 3
               THEN /\ synoptic' = ret.items
                    /\ pc' = "fetched"
                    /\ UNCHANGED exit_code
               ELSE /\ synoptic' = NoSeries
                    /\ EndRun("raised_unpack", 1)
    /\ UNCHANGED <<csv_file, json_file, df, metadata, station, final_df, run,
                   csv_at_start, fuseVars, scraperVars>>

\* main, line 235
FuseStep ==
    /\ pc = "fetched"
    /\ final_df' = fuse_data(df, synoptic[1])
    /\ pc' = "fused"
    /\ UNCHANGED <<csv_file, json_file, df, metadata, station, response_kind, synoptic, run,
                   exit_code, csv_at_start, fuseVars, scraperVars>>

\* main, line 238
SaveCsv ==
    /\ pc = "fused"
    /\ csv_file' = final_df
    /\ pc' = "csv_saved"
    /\ UNCHANGED <<json_file, df, metadata, station, response_kind, synoptic, final_df, run,
                   exit_code, csv_at_start, fuseVars, scraperVars>>

\* main, lines 242-257
SaveMetadata ==
    /\ pc = "csv_saved"
    /\ metadata' = [metadata EXCEPT !.synoptic_source =
                      [present |-> TRUE, station_id |-> station.station_id,
                       fetch |-> run]]
    /\ json_file' = metadata'
    /\ EndRun("done", 0)
    /\ UNCHANGED <<csv_file, df, station, response_kind, synoptic, final_df, run, csv_at_start,
                   fuseVars, scraperVars>>

\* the process is interrupted, or an I/O call raises, between two steps
Interrupt ==
    /\ pc \in Running
    /\ EndRun("killed", 130)
    /\ UNCHANGED <<csv_file, json_file, df, metadata, station, response_kind, synoptic, final_df,
                   run, csv_at_start, fuseVars, scraperVars>>

\* ============================================================== scraper.py
\* PARAMS, in its order
PARAMS ==
    <<[code |-> "44201", name |-> "O3"], [code |-> "42601", name |-> "NO"],
      [code |-> "42602", name |-> "NO2"], [code |-> "63301", name |-> "SR"],
      [code |-> "62101", name |-> "Temp"]>>
ParamCodes == {PARAMS[i].code : i \in DOMAIN PARAMS}
\* the codes monitors report: the required ones and one that is not
MonitorCodes == ParamCodes \cup {"88101"}
START_YEAR == 1980

\* An answer of session.get: the call raised (timeout, connection error, or the
\* retries on 429/5xx exhausted), or a response with a status and its 'Data'
Raised == [raised |-> TRUE, status_code |-> 0, Data |-> <<>>]
Status(code, data) == [raised |-> FALSE, status_code |-> code, Data |-> data]
Answers(lists) == {Raised, Status(404, <<>>)} \cup {Status(200, d) : d \in lists}
SeqsUpTo(S, n) == UNION {[1..k -> S] : k \in 0..n}

\* ---- get_sites
RECURSIVE CollectSites(_, _, _, _)
\* the loop over the counties from county i on, all_sites so far: the sites
\* of every county whose listing answers 200, each tagged with its county;
\* a raising call ends the loop in the function's except clause
CollectSites(counties, answers, i, all_sites) ==
    IF i > Len(counties) THEN [raised |-> FALSE, all_sites |-> all_sites]
    ELSE IF answers[i].raised THEN [raised |-> TRUE, all_sites |-> all_sites]
    ELSE IF answers[i].status_code = 200
    THEN CollectSites(counties, answers, i + 1,
                      all_sites \o [k \in DOMAIN answers[i].Data |->
                                      [code |-> answers[i].Data[k].code,
                                       county_code |-> counties[i].code]])
    ELSE CollectSites(counties, answers, i + 1, all_sites)

RECURSIVE Deduplicate(_, _)
\* the dict keyed by state-county-site: a uid stays where it first occurred
Deduplicate(all_sites, i) ==
    IF i > Len(all_sites) THEN <<>>
    ELSE (IF \E k \in 1..(i - 1) :
                /\ all_sites[k].county_code = all_sites[i].county_code
                /\ all_sites[k].code = all_sites[i].code
          THEN <<>> ELSE <<all_sites[i]>>)
         \o Deduplicate(all_sites, i + 1)

\* counties: the answer of list/countiesByState; answers: the answers of
\* list/sitesByCounty, one per county
get_sites(counties, answers) ==
    IF counties.raised THEN <<>>
    ELSE IF counties.status_code # 200 THEN <<>>
    ELSE LET got == CollectSites(counties.Data, answers, 1, <<>>)
         IN IF got.raised THEN <<>> ELSE Deduplicate(got.all_sites, 1)

CountyLists == {[i \in 1..n |-> [code |-> i]] : n \in 0..MaxCounties}
\* a listing may name a site more than once
SiteLists == SeqsUpTo({[code |-> 1]}, MaxSitesPerCounty)

\* ---- check_site_monitors
RECURSIVE FoundParams(_, _, _)
FoundParams(monitors, i, found_params) ==
    IF i > Len(monitors) THEN found_params
    ELSE FoundParams(monitors, i + 1,
                     IF monitors[i].parameter_code \in ParamCodes
                     THEN found_params \cup {monitors[i].parameter_code}
                     ELSE found_params)

\* check_site_monitors with the containment the wrong way round
check_site_monitors_reversed(answer) ==
    IF answer.raised THEN [has_all |-> FALSE, found |-> {}]
    ELSE IF answer.status_code # 200 THEN [has_all |-> FALSE, found |-> {}]
    ELSE LET found_params == FoundParams(answer.Data, 1, {})
         IN [has_all |-> found_params \subseteq ParamCodes, found |-> found_params]

check_site_monitors(answer) ==
    IF answer.raised THEN [has_all |-> FALSE, found |-> {}]
    ELSE IF answer.status_code # 200 THEN [has_all |-> FALSE, found |-> {}]
    ELSE LET found_params == FoundParams(answer.Data, 1, {})
         IN [has_all |-> ParamCodes \subseteq found_params, found |-> found_params]

\* instrumentation histories: up to as many records as there are required
\* parameters, the shortest that can hold them all
MaxMonitors == Len(PARAMS)
MonitorLists == SeqsUpTo({[parameter_code |-> c] : c \in MonitorCodes}, MaxMonitors)

\* ---- fetch_hourly_data
\* both failures are absorbed in the function: it returns [] and never raises
\* fetch_hourly_data without its except clause
fetch_hourly_data_raising(answer) ==
    IF answer.raised THEN [raised |-> TRUE, data |-> <<>>]
    ELSE IF answer.status_code # 200 THEN [raised |-> FALSE, data |-> <<>>]
    ELSE [raised |-> FALSE, data |-> answer.Data]

fetch_hourly_data(answer) ==
    IF answer.raised THEN [raised |-> FALSE, data |-> <<>>]
    ELSE IF answer.status_code # 200 THEN [raised |-> FALSE, data |-> <<>>]
    ELSE [raised |-> FALSE, data |-> answer.Data]

\* the samples a window of year y may hold
SampleLists(y) ==
    SeqsUpTo({[parameter_code |-> c, date_local |-> y, sample_measurement |-> 1] :
                c \in {"44201", "63301"}}, MaxSamples)

\* ---- dates: a day is the number YYYYMMDD, which orders as the string does
YearOf(d) == d \div 10000
MonthOf(d) == (d \div 100) % 100
DayOf(d) == d % 100
IsLeap(y) == (y % 4 = 0 /\ y % 100 # 0) \/ y % 400 = 0
DaysInMonth(y, m) ==
    IF m = 2 THEN (IF IsLeap(y) THEN 29 ELSE 28)
    ELSE IF m \in {4, 6, 9, 11} THEN 30 ELSE 31
NextDay(d) ==
    IF DayOf(d) < DaysInMonth(YearOf(d), MonthOf(d)) THEN d + 1
    ELSE IF MonthOf(d) < 12 THEN YearOf(d) * 10000 + (MonthOf(d) + 1) * 100 + 1
    ELSE (YearOf(d) + 1) * 10000 + 101
Min(a, b) == IF a <= b THEN a ELSE b
Jan1(y) == y * 10000 + 101
Dec31(y) == y * 10000 + 1231

\* Window without the clipping of the current year's window
WindowUnclipped(y, now_year, today_str) ==
    [break |-> FALSE, bdate |-> Jan1(y), edate |-> Dec31(y)]

\* main, lines 201-208: the window of a year; now_year and today_str are the
\* two readings of the clock
Window(y, now_year, today_str) ==
    IF y = now_year
    THEN [break |-> Jan1(y) > today_str, bdate |-> Jan1(y),
          edate |-> Min(Dec31(y), today_str)]
    ELSE [break |-> FALSE, bdate |-> Jan1(y), edate |-> Dec31(y)]

\* the clock readings a step may make: now, or a day later
Later(d) == IF ticks < MaxTicks THEN {d, NextDay(d)} ELSE {d}
Ticked(d) == IF d = today THEN ticks ELSE ticks + 1

StartDays ==
    {y * 10000 + md : y \in START_YEAR..(START_YEAR + MaxSpan), md \in {101, 630, 1231}}

\* ---- main, lines 221-268: the reshape of a site's records
required_cols == <<"O3", "NO", "NO2", "SR", "Temp">>
\* df['parameter_code'].map(PARAMS): a code PARAMS lacks maps to NaN
param_name(code) ==
    IF code \in ParamCodes
    THEN PARAMS[CHOOSE i \in DOMAIN PARAMS : PARAMS[i].code = code].name
    ELSE "NaN"
\* pivot_table sorts the column labels: the names of PARAMS in string order
SortedNames == <<"NO", "NO2", "O3", "SR", "Temp">>
\* the samples of channel n at time t that carry a value
Measured(records, t, n) ==
    SelectSeq(records, LAMBDA r : /\ r.date_local = t
                                  /\ param_name(r.parameter_code) = n
                                  /\ r.sample_measurement # NA)
RECURSIVE Sum(_, _)
Sum(recs, i) == IF i > Len(recs) THEN 0 ELSE recs[i].sample_measurement + Sum(recs, i + 1)
\* aggfunc='mean' over the values of a cell (the inputs keep the mean whole)
mean(recs) == IF Len(recs) = 0 THEN NA ELSE Sum(recs, 1) \div Len(recs)

\* df.pivot_table(index='datetime', columns='param_name',
\* values='sample_measurement', aggfunc='mean'), the index written as the
\* first column: groups without a value are dropped (dropna=True), so there
\* is a row per time and a column per channel that has at least one value;
\* index and column labels come out sorted
pivot_table(records) ==
    LET names == {n \in Range(SortedNames) :
                    \E i \in DOMAIN records :
                       Len(Measured(records, records[i].date_local, n)) > 0}
        times == {records[i].date_local : i \in
                    {i \in DOMAIN records :
                       \E n \in names : Len(Measured(records, records[i].date_local, n)) > 0}}
        cols == SelectSeq(SortedNames, LAMBDA n : n \in names)
        index == SortedSeq(times)
    IN [columns |-> <<"datetime">> \o cols,
        rows |-> [i \in 1..Cardinality(times) |->
                    <<index[i]>> \o [j \in DOMAIN cols |->
                                       mean(Measured(records, index[i], cols[j]))]]]

\* a reindex that leaves the columns as they are
reindex_skipped(d, cols) == d

\* df.reindex(columns=cols): the index stays, the columns become cols, a
\* label the frame lacks giving a column of missing values
reindex(d, cols) ==
    [columns |-> <<"datetime">> \o cols,
     rows |-> [i \in DOMAIN d.rows |->
                 <<d.rows[i][1]>> \o [j \in DOMAIN cols |->
                                        IF HasColumn(d, cols[j])
                                        THEN d.rows[i][ColIndex(d, cols[j])]
                                        ELSE NA]]]

\* df.dropna(): the rows without a missing value
dropna(d) ==
    [d EXCEPT !.rows = SelectSeq(d.rows, LAMBDA row : \A j \in DOMAIN row : row[j] # NA)]

\* the metadata logic: a channel without records gets the "No Data" marker
parameter_details(records) ==
    [i \in DOMAIN PARAMS |->
       [name |-> PARAMS[i].name,
        no_data |-> ~\E k \in DOMAIN records :
                       records[k].parameter_code = PARAMS[i].code]]

\* how the aggregation ends: with no value at all the measurement column is
\* not numeric, and the mean either raises or yields an empty table,
\* depending on the pandas installed
PivotOutcomes(records) ==
    IF \E i \in DOMAIN records : records[i].sample_measurement # NA
    THEN {"table"}
    ELSE {"table", "TypeError"}

\* the records a site may have accumulated, channel by channel: no sample,
\* one sample without a value, one sample with a value at some time, or two
\* samples at the same time
ChannelSamples(code) ==
    LET rec(t, v) == [parameter_code |-> code, date_local |-> t, sample_measurement |-> v]
    IN {<<>>, <<rec(1, NA)>>, <<rec(1, 2), rec(1, 4)>>}
       \cup {<<rec(t, 2)>> : t \in 1..MaxTime}
RecordSets ==
    {o3 \o no \o no2 \o sr \o temp :
       o3 \in ChannelSamples(PARAMS[1].code), no \in ChannelSamples(PARAMS[2].code),
       no2 \in ChannelSamples(PARAMS[3].code), sr \in ChannelSamples(PARAMS[4].code),
       temp \in ChannelSamples(PARAMS[5].code)}

\* main at line 217 of an accepted site's iteration, the windows fetched
InitReshape ==
    /\ listing = NoListing
    /\ sites = <<[code |-> 1, county_code |-> 1]>>
    /\ s_pc = "process"
    /\ today = START_YEAR * 10000 + 101
    /\ ticks = 0 /\ END_YEAR = START_YEAR /\ idx = 1 /\ has_all = TRUE /\ mon = NoMonitors
    /\ year = START_YEAR /\ windows = <<>>
    /\ all_records \in RecordSets
    /\ raw_file = EmptyFrame /\ cleaned_file = EmptyFrame /\ meta_file = NoSiteMetadata
    /\ f_df = EmptyFrame /\ f_in = EmptyFrame /\ f_S = EmptyFrame
    /\ f_same = FALSE /\ f_n = 0
    /\ csv_file = EmptyFrame /\ json_file = NoMetadata /\ pc = "idle"
    /\ df = EmptyFrame /\ metadata = NoMetadata /\ station = NoStation
    /\ response_kind = "none" /\ synoptic = NoSeries /\ final_df = EmptyFrame /\ run = 0
    /\ exit_code = 0 - 1 /\ csv_at_start = EmptyFrame

InitScraper ==
    /\ listing = NoListing /\ sites = <<>> /\ s_pc = "main"
    /\ today \in StartDays
    /\ ticks = 0 /\ END_YEAR = 0 /\ idx = 0 /\ has_all = FALSE /\ mon = NoMonitors
    /\ year = 0 /\ all_records = <<>> /\ windows = <<>>
    /\ raw_file = EmptyFrame /\ cleaned_file = EmptyFrame /\ meta_file = NoSiteMetadata
    /\ f_df = EmptyFrame /\ f_in = EmptyFrame /\ f_S = EmptyFrame
    /\ f_same = FALSE /\ f_n = 0
    /\ csv_file = EmptyFrame /\ json_file = NoMetadata /\ pc = "idle"
    /\ df = EmptyFrame /\ metadata = NoMetadata /\ station = NoStation
    /\ response_kind = "none" /\ synoptic = NoSeries /\ final_df = EmptyFrame /\ run = 0
    /\ exit_code = 0 - 1 /\ csv_at_start = EmptyFrame

\* main, lines 168-177: END_YEAR, then get_sites; without sites main returns.
\* The answers of the listing endpoints are kept in listing when log is set.
GetSitesStep(log) ==
    /\ s_pc = "main"
    /\ END_YEAR' = YearOf(today)
    /\ \E counties \in Answers(CountyLists) :
       \E answers \in [DOMAIN counties.Data -> Answers(SiteLists)] :
         /\ listing' = IF log
                        THEN [raised |-> counties.raised,
                              status_code |-> counties.status_code,
                              counties |-> [i \in DOMAIN counties.Data |->
                                              [code |-> counties.Data[i].code,
                                               answer |-> answers[i]]]]
                        ELSE NoListing
         /\ sites' = get_sites(counties, answers)
    /\ s_pc' = IF sites' = <<>> THEN "done" ELSE "site"
    /\ idx' = 1
    /\ \E now \in Later(today) : today' = now /\ ticks' = Ticked(now)
    /\ UNCHANGED <<has_all, mon, year, all_records, windows, raw_file, cleaned_file,
                   meta_file, fuseVars, runVars>>

DiscoverSites == GetSitesStep(TRUE)
GetSites == GetSitesStep(FALSE)

\* main, line 191: the capability check of the next site
CheckSite ==
    /\ s_pc = "site"
    /\ idx <= Len(sites)
    /\ \E answer \in Answers(MonitorLists) :
         /\ has_all' = check_site_monitors(answer).has_all
         /\ mon' = [ok |-> ~answer.raised /\ answer.status_code = 200,
                    codes |-> {answer.Data[i].parameter_code : i \in DOMAIN answer.Data}]
    /\ s_pc' = "checked"
    /\ \E now \in Later(today) : today' = now /\ ticks' = Ticked(now)
    /\ UNCHANGED <<listing, sites, END_YEAR, idx, year, all_records, windows,
                   raw_file, cleaned_file, meta_file, fuseVars, runVars>>

\* main, lines 192-199: a site without all the parameters is skipped
Branch ==
    /\ s_pc = "checked"
    /\ IF ~has_all
       THEN /\ idx' = idx + 1
            /\ s_pc' = "site"
            /\ has_all' = FALSE
            /\ UNCHANGED <<year, all_records, windows>>
       ELSE /\ s_pc' = "year"
            /\ year' = START_YEAR
            /\ all_records' = <<>>
            /\ windows' = <<>>
            /\ UNCHANGED <<idx, has_all>>
    /\ mon' = NoMonitors
    /\ UNCHANGED <<listing, sites, today, ticks, END_YEAR, raw_file, cleaned_file,
                   meta_file, fuseVars, runVars>>

\* main, lines 200-215: one iteration of the loop over the years
FetchYear ==
    /\ s_pc = "year"
    /\ \E today_str \in Later(today) :
         LET w == Window(year, YearOf(today), today_str)
         IN /\ today' = today_str
            /\ ticks' = Ticked(today_str)
            /\ IF w.break
               THEN /\ s_pc' = "process"
                    /\ UNCHANGED <<year, all_records, windows>>
               ELSE \E answer \in Answers(SampleLists(year)) :
                      LET got == fetch_hourly_data(answer)
                      IN /\ windows' = Append(windows,
                                [year |-> year, bdate |-> w.bdate, edate |-> w.edate,
                                 today |-> today_str, answer |-> answer])
                         /\ IF got.raised
                            THEN s_pc' = "raised" /\ UNCHANGED <<year, all_records>>
                            ELSE /\ all_records' = all_records \o got.data
                                 /\ IF year = END_YEAR
                                    THEN s_pc' = "process" /\ UNCHANGED year
                                    ELSE s_pc' = "year" /\ year' = year + 1
    /\ UNCHANGED <<listing, sites, END_YEAR, idx, has_all, mon, raw_file, cleaned_file,
                   meta_file, fuseVars, runVars>>

\* main, lines 217-284: without records the site is left; otherwise the
\* records are pivoted, the raw table is saved, then the table is reindexed
\* to required_cols, cleaned and saved, then the metadata
ProcessSite ==
    /\ s_pc = "process"
    /\ IF all_records = <<>>
       THEN /\ s_pc' = "saved"
            /\ UNCHANGED <<raw_file, cleaned_file, meta_file>>
       ELSE \E outcome \in PivotOutcomes(all_records) :
              IF outcome = "TypeError"
              THEN /\ s_pc' = "pivot_error"
                   /\ UNCHANGED <<raw_file, cleaned_file, meta_file>>
              ELSE LET df_pivoted == pivot_table(all_records)
                       df_cleaned == dropna(reindex(df_pivoted, required_cols))
                   IN /\ raw_file' = df_pivoted
                      /\ cleaned_file' = df_cleaned
                      /\ meta_file' = [params |-> required_cols,
                                       details |-> parameter_details(all_records)]
                      /\ s_pc' = "saved"
    /\ has_all' = FALSE /\ year' = 0 /\ all_records' = <<>> /\ windows' = <<>>
    /\ UNCHANGED <<listing, sites, today, ticks, END_YEAR, idx, mon, fuseVars, runVars>>

\* main, lines 179-186: the loop goes on; with another site to process,
\* safe_name is that site's and the three files are its own, not written yet
NextSite ==
    /\ s_pc = "saved"
    /\ idx' = idx + 1
    /\ s_pc' = "site"
    /\ IF idx < Len(sites)
       THEN /\ raw_file' = EmptyFrame /\ cleaned_file' = EmptyFrame
            /\ meta_file' = NoSiteMetadata
       ELSE UNCHANGED <<raw_file, cleaned_file, meta_file>>
    /\ UNCHANGED <<listing, sites, today, ticks, END_YEAR, has_all, mon, year,
                   all_records, windows, fuseVars, runVars>>

\* the loop over the sites ends
Finish ==
    /\ s_pc = "site"
    /\ idx > Len(sites)
    /\ s_pc' = "done"
    /\ UNCHANGED <<listing, sites, today, ticks, END_YEAR, idx, has_all, mon, year,
                   all_records, windows, raw_file, cleaned_file, meta_file,
                   fuseVars, runVars>>

NextFuse == Fuse
NextFusion ==
    \/ StartRun \/ Locate \/ FindStation \/ FetchSeries
    \/ FuseStep \/ SaveCsv \/ SaveMetadata \/ Interrupt

NextDiscovery == DiscoverSites
NextScraper ==
    GetSites \/ CheckSite \/ Branch \/ FetchYear \/ ProcessSite \/ NextSite \/ Finish
NextReshape == ProcessSite \/ NextSite \/ Finish

SpecFuse == InitFuse /\ [][NextFuse]_vars
SpecFusion == InitFusion /\ [][NextFusion]_vars

SpecDiscovery == InitScraper /\ [][NextDiscovery]_vars
SpecScraper == InitScraper /\ [][NextScraper]_vars
SpecReshape == InitReshape /\ [][NextReshape]_vars

\* ================================================================== claims
SynopticValues(d) ==
    IF HasColumn(d, "SR_Synoptic") THEN Range(Column(d, "SR_Synoptic")) ELSE {}
SynopticLabels(d) == {i \in DOMAIN d.columns : ContainsSRSynoptic(d.columns[i])}
OneSynopticColumn(d) ==
    Cardinality(SynopticLabels(d)) = 1 /\ NumColumns(d, "SR_Synoptic") = 1
AllMissing(d) == HasColumn(d, "SR_Synoptic") /\ SynopticValues(d) \subseteq {NA}

\* C1: a call of fuse_data returns a table with exactly as many rows as the
\* table it was given and the same sequence of 'datetime' values, whatever the
\* supplementary series (empty, or with wall-clock timestamps that repeat).
C1_RowsPreserved ==
    f_n > 0 => /\ Len(f_df.rows) = Len(f_in.rows)
               /\ Column(f_df, "datetime") = Column(f_in, "datetime")

\* C2: fusing is idempotent: a call of fuse_data with the series of the call
\* before it returns the table it was given, and every fused table has exactly
\* one SR_Synoptic column, whichever series came before.
C2_Idempotent ==
    /\ f_n > 0 => OneSynopticColumn(f_df)
    /\ f_same => f_df = f_in

\* C3: check_site_monitors answers has_all exactly when the monitors endpoint
\* answered 200 and every required code occurs among the records, and main goes
\* on to fetch the site's samples exactly when has_all is true.
C3_AcceptedIffSuperset ==
    /\ [](s_pc \in {"year", "process"} => has_all)
    /\ [][s_pc = "checked" =>
            /\ has_all = (mon.ok /\ ParamCodes \subseteq mon.codes)
            /\ (s_pc' = "year") = has_all
            /\ (s_pc' = "site") = ~has_all]_vars
C3_Accepted == s_pc = "year" /\ has_all /\ Len(windows) >= 1 /\ idx = 2

\* C4 as claimed: a run that finds no station ends with success and leaves a CSV
\* whose SR_Synoptic column is all missing.
C4_NoStationAllMissing ==
    pc = "exit_no_station" => exit_code = 0 /\ AllMissing(csv_file)
\* C4 as amended: a run that finds no station ends with success and leaves a CSV
\* with one SR_Synoptic column: all missing when the CSV had none, and the CSV
\* unchanged, earlier fused values included, when it had one.
C4_NoStationColumnKept ==
    pc = "exit_no_station" =>
        /\ exit_code = 0
        /\ OneSynopticColumn(csv_file)
        /\ IF HasColumn(csv_at_start, "SR_Synoptic")
           THEN csv_file = csv_at_start
           ELSE /\ DropColumns(csv_file, {"SR_Synoptic"}) = csv_at_start
                /\ AllMissing(csv_file)
C4_EarlierValuesKept ==
    /\ pc = "exit_no_station" /\ run = 2
    /\ \E v \in SynopticValues(csv_file) : v # NA /\ ValueFetch(v) = 1

\* C5 (the half of the claim's equivalence that a failure breaks): whenever no
\* run is in progress (the last one ended, by itself or by a failure or
\* interruption at any step), the CSV holds fused values of a station's fetch
\* only if the metadata's synoptic_source records that station and fetch.
C5_ArtifactsAgree ==
    pc \in Ended =>
        \A s \in Stations, k \in 1..MaxRuns :
            (\E v \in SynopticValues(csv_file) :
                v # NA /\ ValueStation(v) = s /\ ValueFetch(v) = k)
            => (json_file.synoptic_source =
                    [present |-> TRUE, station_id |-> s, fetch |-> k])

\* the sites of the counties whose site listing answered 200
ListedSites ==
    {[code |-> listing.counties[i].answer.Data[k].code,
      county_code |-> listing.counties[i].code] :
        <<i, k>> \in {<<i, k>> \in (DOMAIN listing.counties) \X (1..MaxSitesPerCounty) :
                        /\ ~listing.counties[i].answer.raised
                        /\ listing.counties[i].answer.status_code = 200
                        /\ k \in DOMAIN listing.counties[i].answer.Data}}
\* C6: when the county listing answers, get_sites returns every site of every
\* county whose site listing answered 200, whatever became of the other
\* counties' listings (another status, or a call that raised).
C6_FailedCountySkipped ==
    (s_pc # "main" /\ ~listing.raised /\ listing.status_code = 200) =>
        Range(sites) = ListedSites

RECURSIVE OkData(_, _)
\* the samples of the windows from window i on that answered 200, in order
OkData(W, i) ==
    IF i > Len(W) THEN <<>>
    ELSE (IF ~W[i].answer.raised /\ W[i].answer.status_code = 200
          THEN W[i].answer.Data ELSE <<>>) \o OkData(W, i + 1)
\* C7: a window whose retrieval fails (a status other than 200, or a call that
\* raised) adds no samples and stops nothing: the windows are requested year by
\* year from START_YEAR to END_YEAR, and the accumulated records are the samples
\* of the windows that answered 200, in order.
C7_FailedWindowIsolated ==
    /\ s_pc # "raised"
    /\ s_pc \in {"year", "process"} =>
         /\ all_records = OkData(windows, 1)
         /\ \A i \in DOMAIN windows : windows[i].year = START_YEAR + i - 1
    /\ s_pc = "year" => year = START_YEAR + Len(windows)
    /\ s_pc = "process" => Len(windows) = END_YEAR - START_YEAR + 1
C7_GapBetweenData ==
    /\ s_pc = "process" /\ Len(windows) = 3
    /\ windows[1].answer.status_code = 200 /\ windows[1].answer.Data # <<>>
    /\ windows[2].answer.raised
    /\ windows[3].answer.status_code = 200 /\ windows[3].answer.Data # <<>>
    /\ Len(all_records) = 2

\* C8: after a malformed time-series response (no STATION, or the observation
\* fields absent) the run goes on: it ends at the end of main with success, and
\* the CSV has every canonical row and an all-missing SR_Synoptic column.
C8_MalformedContinues ==
    (response_kind \in {"no_station", "no_fields"} /\ pc \in Ended \ {"killed"}) =>
        /\ pc = "done" /\ exit_code = 0
        /\ Column(csv_file, "datetime") = Column(csv_at_start, "datetime")
        /\ AllMissing(csv_file)

\* the metadata offers no latitude/longitude: no entry of its details is a
\* dict with coordinates
NoCoordinates(md) ==
    ~md.has_details \/ \A i \in DOMAIN md.details : md.details[i] # "Coords"
\* a run that has read its two files
LoadedRun == pc \in (Running \cup Ended) \ {"exit_no_token", "exit_load"}
\* C9 as claimed: a run whose metadata offers no location goes on and ends
\* with success and a CSV whose SR_Synoptic column is all missing.
C9_MissingLocationRecovers ==
    (LoadedRun /\ pc \in Ended \ {"killed"} /\ NoCoordinates(metadata)) =>
        exit_code = 0 /\ AllMissing(csv_file)
\* C9 as amended: a run whose metadata offers no location goes no further than
\* the search of the metadata: it exits with status 1 and leaves the CSV and
\* the metadata document as it found them, without an SR_Synoptic column added.
C9_MissingLocationExits ==
    (LoadedRun /\ NoCoordinates(metadata)) =>
        /\ pc \in {"loaded", "exit_no_location", "killed"}
        /\ pc = "exit_no_location" => exit_code = 1
        /\ csv_file = csv_at_start
        /\ json_file = metadata
C9_NoDataMarker ==
    /\ pc = "exit_no_location" /\ exit_code = 1
    /\ metadata.has_details /\ "NoData" \in Range(metadata.details)
    /\ Len(csv_file.rows) > 0

\* C10: the windows requested for a site are one per year from START_YEAR on,
\* each from January 1 and each but the last to December 31, so that each begins
\* the day after the one before it ends; when the loop has ended there is one
\* for every year up to END_YEAR, and the last ends on the earlier of
\* December 31 and the day read from the clock.
C10_WindowsTile ==
    s_pc \in {"year", "process"} =>
        /\ \A i \in DOMAIN windows :
             /\ windows[i].year = START_YEAR + i - 1
             /\ windows[i].bdate = Jan1(windows[i].year)
             /\ windows[i].bdate <= windows[i].edate
             /\ i < Len(windows) => windows[i].edate = Dec31(windows[i].year)
             /\ i > 1 => windows[i].bdate = NextDay(windows[i - 1].edate)
        /\ s_pc = "process" =>
             /\ Len(windows) = END_YEAR - START_YEAR + 1
             /\ windows[Len(windows)].edate =
                  Min(Dec31(END_YEAR), windows[Len(windows)].today)
C10_LastWindowClipped ==
    /\ s_pc = "process" /\ Len(windows) = 3
    /\ windows[3].edate < Dec31(END_YEAR)
    /\ windows[3].edate = windows[3].today

\* channel n has a sample with a value among the records
HasValue(records, n) ==
    \E i \in DOMAIN records :
       /\ records[i].sample_measurement # NA
       /\ \E k \in DOMAIN PARAMS :
            PARAMS[k].name = n /\ PARAMS[k].code = records[i].parameter_code
\* C11 (as stated): whenever the reshape has saved a site's tables, the raw
\* CSV and the cleaned CSV both have, after the timestamp, exactly the columns
\* O3, NO, NO2, SR, Temp in that order, whichever channels had samples.
C11_CanonicalColumns ==
    s_pc = "saved" /\ raw_file # EmptyFrame =>
        /\ raw_file.columns = <<"datetime", "O3", "NO", "NO2", "SR", "Temp">>
        /\ cleaned_file.columns = <<"datetime", "O3", "NO", "NO2", "SR", "Temp">>
\* C11 (amended): every save of a non-empty sample set gives the cleaned CSV
\* exactly the columns O3, NO, NO2, SR, Temp in that order and only rows
\* without a missing value (none at all when a required channel has no
\* value); the raw CSV, written before that restriction, has one column per
\* channel that has at least one value, in the alphabetical order NO, NO2, O3,
\* SR, Temp, and no column for a channel without values.
C11_ColumnsAsSaved ==
    [][s_pc = "process" /\ s_pc' = "saved" /\ all_records # <<>> =>
         /\ cleaned_file'.columns = <<"datetime", "O3", "NO", "NO2", "SR", "Temp">>
         /\ \A i \in DOMAIN cleaned_file'.rows :
              /\ Len(cleaned_file'.rows[i]) = 6
              /\ \A j \in 1..6 : cleaned_file'.rows[i][j] # NA
         /\ (\E n \in {"O3", "NO", "NO2", "SR", "Temp"} : ~HasValue(all_records, n))
              => cleaned_file'.rows = <<>>
         /\ raw_file'.columns =
              <<"datetime">> \o SelectSeq(<<"NO", "NO2", "O3", "SR", "Temp">>,
                                          LAMBDA n : HasValue(all_records, n))
         /\ \A i \in DOMAIN raw_file'.rows :
              Len(raw_file'.rows[i]) = Len(raw_file'.columns)]_vars
\* a site with values for O3 and NO only has been saved: the raw CSV has
\* those two columns, NO first, and the cleaned CSV the five columns, no rows
C11_RawLacksChannels ==
    /\ s_pc = "saved"
    /\ raw_file.columns = <<"datetime", "NO", "O3">>
    /\ Len(raw_file.rows) > 0
    /\ cleaned_file.columns = <<"datetime", "O3", "NO", "NO2", "SR", "Temp">>
    /\ cleaned_file.rows = <<>>

====
